---- MODULE Spec2Model ----
(***************************************************************************)
(* A model of the retrieval subsystem of UNI_AI: RAGSystem of              *)
(* scripts/rag.py (a FAISS flat L2 index with a parallel metadata list,    *)
(* its persistence, and the retrieval calls) together with the             *)
(* EmbeddingGenerator of scripts/embeddings.py that it drives.             *)
(*                                                                         *)
(* Calls are synchronous: a call sets ret, Return hands the outcome to the *)
(* caller, and only then the next call starts.  Spec is the life cycle of  *)
(* the index with the faults of its file operations; RetrievalSpec adds    *)
(* the two retrieval calls on fixed question lists, UnitSpec is retrieval  *)
(* by unit on every small index, CacheSpec the topic cache between index   *)
(* operations, and StartupSpec initialize_rag_system over the files that   *)
(* earlier runs left behind.                                               *)
(*                                                                         *)
(* MCPOrchestrator of mcp/orchestrator.py sits on top of the RAG system:   *)
(* DecisionSpec is its retrieval decision (should_use_rag), FormatSpec its *)
(* context assembly (format_context), OrchestratorSpec the whole of        *)
(* answer_question over an index that is absent, empty or built,           *)
(* ContextSpec both of them side by side, and BatchSpec                    *)
(* batch_answer_questions.  A text                                         *)
(* the orchestrator inspects is the sequence of its characters; the scores *)
(* of should_use_rag are exact hundredths, which compare with each other   *)
(* and with the thresholds in use as the float sums of the code do.        *)
(*                                                                         *)
(* Numbers.  Embeddings are integer vectors of dimension 2, squared L2     *)
(* distances are integers, and every score (1/(1+distance), cosine) is an  *)
(* exact fraction [num, den] with den > 0.  Floating-point rounding is not *)
(* modelled.                                                               *)
(***************************************************************************)
EXTENDS Integers, Sequences, FiniteSets, TLC

VARIABLES
    faiss_index,    \* self.faiss_index: None, or the vectors the index stores
    metadata,       \* self.metadata: the list of question dicts
    index_file,     \* the file at self.index_path
    metadata_file,  \* the file at self.metadata_path
    ret,            \* the call in progress: its name, arguments and outcome
    last_save,      \* history: what the last save_index call saved
    orchestrator,   \* the MCPOrchestrator: rag_system, use_rag_threshold
    turn,           \* the orchestrator call in progress and its outcome
    topic_cache,    \* self.topic_cache: a function from key to list
    cache_log       \* history: the cache_topic calls on this instance

vars ==
    <<faiss_index, metadata, index_file, metadata_file, ret, last_save,
      orchestrator, turn, topic_cache, cache_log>>

\* What the index operations and the retrievals do not touch.
untouched == <<orchestrator, turn, topic_cache, cache_log>>

----------------------------------------------------------------------------
(* Bounds of the model *)

\* The largest number of vectors / metadata entries the index is let grow to.
MaxDocs == 2

\* The largest top_k a retrieval is called with.
MaxTopK == 2

----------------------------------------------------------------------------
(* Values *)

\* A fraction num/den, den > 0.
Rat(n, d) == [num |-> n, den |-> d]

RatGE(a, b) == a.num * b.den >= b.num * a.den

RatGT(a, b) == a.num * b.den > b.num * a.den

\* An optional dict key: absent, or present with a value.
Absent == <<>>

Some(x) == <<x>>

\* The question dicts the document source supplies (load_data.py): the text,
\* the unit code and the year; the other keys are carried along unchanged in
\* the same way and are left out.
Q1 == [question |-> "what is oop", unit |-> "BBIT106", year |-> 2021]

Q2 == [question |-> "define a class", unit |-> "bbit106", year |-> 2022]

Q3 == [question |-> "normalise a table", unit |-> "BIT210", year |-> 2021]

\* The lists of questions build_index and update_index are called with in the
\* life cycle of the index: every list of at most two of Q1 and Q3.
PersistLists ==
    {<<>>} \cup {<<q>> : q \in {Q1, Q3}}
           \cup {<<p, q>> : p \in {Q1, Q3}, q \in {Q1, Q3}}

\* The lists build_index is called with before retrievals, and the lists
\* update_index then adds.
RetrievalLists == {<<>>, <<Q1>>, <<Q3, Q1>>, <<Q1, Q2>>}

RetrievalUpdates == {<<Q2>>}

\* The query strings; "" is the empty query.
Queries == {"", "what is oop"}

\* The lists build_index is called with before retrievals by unit, every
\* list of one to MaxDocs of the questions, and the queries of these
\* retrievals; "" stands for no query.
UnitLists ==
    UNION {[1..n -> {Q1, Q2, Q3}] : n \in 1..MaxDocs}

UnitQueries == {"", "what is oop", "define a class"}

\* similarity_threshold values; 3/10 is the default.
Thresholds == {Rat(0, 1), Rat(3, 10), Rat(1, 1)}

\* The unit codes retrieve_by_unit is called with.
UnitArgs == {"bbit106", "CS999"}

\* str.upper() on the unit codes in use.
Upper(s) ==
    CASE s = "bbit106" -> "BBIT106"
      [] s = "bit210" -> "BIT210"
      [] s = "cs999" -> "CS999"
      [] OTHER -> s

----------------------------------------------------------------------------
(* EmbeddingGenerator *)

\* The sentence-transformer model: a fixed function from text to a vector.
ModelEncode(text) ==
    CASE text = "what is oop" -> <<1, 0>>
      [] text = "define a class" -> <<0, 1>>
      [] text = "normalise a table" -> <<3, 4>>
      [] OTHER -> <<4, 3>>

Zeros == <<0, 0>>

\* embed_text: the zero vector for an empty text, else the model's vector.
embed_text(text) == IF text = "" THEN Zeros ELSE ModelEncode(text)

\* embed_texts: every text goes through the model, the empty ones as "".
embed_texts(texts) == [i \in 1..Len(texts) |-> ModelEncode(texts[i])]

\* embed_questions: the embeddings of the question texts, and one fresh
\* metadata dict per question, without similarity_score.
QuestionMetadata(q) ==
    [question |-> q.question, unit |-> q.unit, year |-> q.year,
     similarity_score |-> Absent, distance |-> Absent]

EmbedQuestionsVectors(questions) ==
    embed_texts([i \in 1..Len(questions) |-> questions[i].question])

EmbedQuestionsMetadata(questions) ==
    [i \in 1..Len(questions) |-> QuestionMetadata(questions[i])]

Dot(a, b) == a[1] * b[1] + a[2] * b[2]

\* np.linalg.norm on the vectors in use, whose norms are whole numbers.
Norm(a) == CHOOSE n \in 0..10 : n * n = Dot(a, a)

\* similarity: the dot product of the two normalised vectors.  A zero vector
\* is divided by 1e-8 and stays zero, so the result is 0.
similarity(a, b) ==
    IF Norm(a) = 0 \/ Norm(b) = 0 THEN Rat(0, 1)
    ELSE Rat(Dot(a, b), Norm(a) * Norm(b))

----------------------------------------------------------------------------
(* The FAISS flat L2 index *)

None == [isNone |-> TRUE, xb |-> <<>>]

IndexOf(vectors) == [isNone |-> FALSE, xb |-> vectors]

ntotal == Len(faiss_index.xb)

\* The distance faiss reports for a slot it could not fill (its label is -1):
\* the largest float32, here a number above every real distance.
FLT_MAX == 1000

L2Sqr(a, b) ==
    (a[1] - b[1]) * (a[1] - b[1]) + (a[2] - b[2]) * (a[2] - b[2])

\* The stored vectors among `left` (1-based positions in xb), nearest first:
\* ascending distance, equal distances in storage order; each as the 0-based
\* label and the squared distance faiss reports.
RECURSIVE NearestFirst(_, _, _)
NearestFirst(xb, xq, left) ==
    IF left = {} THEN <<>>
    ELSE LET i == CHOOSE i \in left : \A j \in left :
                     \/ L2Sqr(xb[i], xq) < L2Sqr(xb[j], xq)
                     \/ L2Sqr(xb[i], xq) = L2Sqr(xb[j], xq) /\ i <= j
         IN  <<[idx |-> i - 1, dist |-> L2Sqr(xb[i], xq)]>>
                 \o NearestFirst(xb, xq, left \ {i})

\* n slots that the search could not fill.
RECURSIVE Unfilled(_)
Unfilled(n) ==
    IF n <= 0 THEN <<>>
    ELSE <<[idx |-> -1, dist |-> FLT_MAX]>> \o Unfilled(n - 1)

\* IndexFlatL2.search(xq, k): k slots, the nearest min(k, ntotal) vectors
\* first, the rest unfilled.
Search(xb, xq, k) ==
    LET found == NearestFirst(xb, xq, 1..Len(xb))
    IN  IF k <= Len(xb) THEN SubSeq(found, 1, k)
        ELSE found \o Unfilled(k - Len(xb))

----------------------------------------------------------------------------
(* Files *)

NoFile == [state |-> "absent", data |-> <<>>]

Corrupt == [state |-> "corrupt", data |-> <<>>]

FileOf(content) == [state |-> "ok", data |-> content]

----------------------------------------------------------------------------
(* The record of the last call *)

\* op: the method; ok: the boolean it returned (build, update, save, load);
\* raised: an exception reached the caller; failed: the embedding provider or
\* the index raised inside the call; results: the list a retrieval returned;
\* embed_calls: the calls made to the embedding provider; hits: what the index
\* search returned; cached: what get_cached_topic returned (Absent is None);
\* fault: what went wrong in the file system during a save or a load; the
\* rest are the arguments.
NoCall ==
    [op |-> "none", ok |-> FALSE, raised |-> FALSE, failed |-> FALSE,
     results |-> <<>>, embed_calls |-> 0, hits |-> <<>>,
     questions |-> <<>>, query |-> "", unit |-> "", top_k |-> 0,
     threshold |-> Rat(0, 1), topic |-> "", cached |-> Absent,
     fault |-> "none"]

Call(op, ok, questions) ==
    [NoCall EXCEPT !.op = op, !.ok = ok, !.questions = questions]

\* No successful save_index yet, or the last save_index call failed.
NotSaved == [valid |-> FALSE, xb |-> <<>>, metadata |-> <<>>]

\* No MCPOrchestrator has been constructed.  Once constructed, rag_system
\* tells whether self.rag_system is a RAGSystem (the one of this model) or
\* None, and use_rag_threshold is the configured threshold.
NoOrchestrator ==
    [constructed |-> FALSE, rag_system |-> FALSE,
     use_rag_threshold |-> Rat(1, 2)]

\* The orchestrator call in progress.  op: the method; query: the characters
\* of the query; use_rag, confidence: what should_use_rag returned;
\* results, max_context_length: the arguments of format_context; context:
\* the string it returned; mode, override, top_k: the arguments of
\* answer_question; calls: the calls it made, in order, to the RAG system
\* and to the MCP client; answer: what it returned (Absent is None); raised:
\* the call ended with an exception; queries: the list given to
\* batch_answer_questions; turns: the answer_question calls it made, in
\* order; answers: the dict it returned, a function from query to answer.
\* For initialize_rag_system, force_rebuild is its argument, calls the steps
\* it took and service whether it returned the RAGSystem (not None).
NoTurn ==
    [op |-> "none", query |-> <<>>, use_rag |-> FALSE,
     confidence |-> Rat(0, 1), results |-> <<>>, max_context_length |-> 0,
     context |-> <<>>, mode |-> "", override |-> Absent, top_k |-> 0,
     calls |-> <<>>, answer |-> Absent, raised |-> FALSE,
     queries |-> <<>>, turns |-> <<>>, answers |-> <<>>,
     force_rebuild |-> FALSE, service |-> FALSE]

----------------------------------------------------------------------------
Init ==
    /\ faiss_index = None
    /\ metadata = <<>>
    /\ index_file = NoFile
    /\ metadata_file = NoFile
    /\ ret = NoCall
    /\ last_save = NotSaved
    /\ orchestrator = NoOrchestrator
    /\ turn = NoTurn
    /\ topic_cache = <<>>
    /\ cache_log = <<>>

\* RAGSystem(): a new instance on the same paths.
New ==
    /\ faiss_index' = None
    /\ metadata' = <<>>
    /\ ret' = Call("new", TRUE, <<>>)
    /\ topic_cache' = <<>>
    /\ cache_log' = <<>>
    /\ UNCHANGED <<index_file, metadata_file, last_save>>

\* The outcome of build_index(questions) on an instance that holds `index`
\* and `meta`: what it holds afterwards and the boolean returned.
\* provider_up: the embedding provider answers.  An empty list gives an
\* array without a second axis, so shape[1] raises; every exception is
\* caught before index or metadata are assigned.
Built(index, meta, questions, provider_up) ==
    IF provider_up /\ Len(questions) > 0
    THEN [faiss_index |-> IndexOf(EmbedQuestionsVectors(questions)),
          metadata |-> EmbedQuestionsMetadata(questions), ok |-> TRUE]
    ELSE [faiss_index |-> index, metadata |-> meta, ok |-> FALSE]

\* build_index(questions).  provider_up: the embedding provider answers.
\* An empty list gives an array without a second axis, so shape[1] raises.
build_index(questions, provider_up) ==
    LET built == Built(faiss_index, metadata, questions, provider_up)
    IN  /\ faiss_index' = built.faiss_index
        /\ metadata' = built.metadata
        /\ ret' = Call("build_index", built.ok, questions)
        /\ UNCHANGED <<index_file, metadata_file, last_save>>

\* update_index with "self.metadata = new_metadata" in place of the extend.
UpdateIndexReplacing(new_questions, provider_up) ==
    IF provider_up /\ ~faiss_index.isNone /\ Len(new_questions) > 0
    THEN /\ faiss_index' =
               IndexOf(faiss_index.xb \o EmbedQuestionsVectors(new_questions))
         /\ metadata' = EmbedQuestionsMetadata(new_questions)
         /\ ret' = Call("update_index", TRUE, new_questions)
         /\ UNCHANGED <<index_file, metadata_file, last_save>>
    ELSE /\ ret' = Call("update_index", FALSE, new_questions)
         /\ UNCHANGED <<faiss_index, metadata, index_file, metadata_file,
                        last_save>>

\* update_index(new_questions).  With no index the add raises on None; with an
\* empty list the embeddings have one axis and faiss's add raises on them.
\* Both the add and the extend run, or neither.
update_index(new_questions, provider_up) ==
    IF provider_up /\ ~faiss_index.isNone /\ Len(new_questions) > 0
    THEN /\ faiss_index' =
               IndexOf(faiss_index.xb \o EmbedQuestionsVectors(new_questions))
         /\ metadata' = metadata \o EmbedQuestionsMetadata(new_questions)
         /\ ret' = Call("update_index", TRUE, new_questions)
         /\ UNCHANGED <<index_file, metadata_file, last_save>>
    ELSE /\ ret' = Call("update_index", FALSE, new_questions)
         /\ UNCHANGED <<faiss_index, metadata, index_file, metadata_file,
                        last_save>>

\* What can go wrong in the file system during save_index: nothing; the index
\* file cannot be created; the index write breaks off; the metadata file cannot
\* be opened; the metadata write breaks off after the file was truncated.
SaveFaults == {"none", "index_open", "index_write", "meta_open", "meta_write"}

\* json.dump followed by json.load on a metadata list: every dict comes back
\* with the same keys and values, in the same order.
JsonDump(docs) ==
    [i \in 1..Len(docs) |->
        <<docs[i].question, docs[i].unit, docs[i].year,
          docs[i].similarity_score, docs[i].distance>>]

JsonLoad(text) ==
    [i \in 1..Len(text) |->
        [question |-> text[i][1], unit |-> text[i][2], year |-> text[i][3],
         similarity_score |-> text[i][4], distance |-> text[i][5]]]

\* The outcome of save_index() on an instance that holds `index` and `meta`:
\* write_index, then the metadata dump; the first exception ends the call
\* with False and leaves what was written so far.  write_index raises on an
\* index that is None.
Saved(index, meta, fault) ==
    [index_file |->
         CASE index.isNone \/ fault = "index_open" -> index_file
           [] fault = "index_write" -> Corrupt
           [] OTHER -> FileOf(index.xb),
     metadata_file |->
         CASE index.isNone \/ fault \in {"index_open", "index_write"} ->
                metadata_file
           [] fault = "meta_open" -> metadata_file
           [] fault = "meta_write" -> Corrupt
           [] OTHER -> FileOf(JsonDump(meta)),
     ok |-> ~index.isNone /\ fault = "none",
     last_save |->
         IF ~index.isNone /\ fault = "none"
         THEN [valid |-> TRUE, xb |-> index.xb, metadata |-> meta]
         ELSE NotSaved]

\* save_index()
save_index(fault) ==
    LET saved == Saved(faiss_index, metadata, fault)
    IN  /\ index_file' = saved.index_file
        /\ metadata_file' = saved.metadata_file
        /\ ret' = [Call("save_index", saved.ok, <<>>) EXCEPT !.fault = fault]
        /\ last_save' = saved.last_save
        /\ UNCHANGED <<faiss_index, metadata>>

\* What can go wrong in the file system during load_index.
LoadFaults == {"none", "index_read", "meta_read"}

\* load_index without the metadata read: only the index is loaded.
LoadIndexKeepingMetadata(fault) ==
    LET index_read == index_file.state = "ok" /\ fault # "index_read"
    IN  /\ faiss_index' =
             IF index_read THEN IndexOf(index_file.data) ELSE faiss_index
        /\ ret' = Call("load_index", index_read, <<>>)
        /\ UNCHANGED <<metadata, index_file, metadata_file, last_save>>

\* The outcome of load_index() on an instance that holds `index` and `meta`:
\* False when the index file is missing; read_index assigns faiss_index; the
\* metadata is read only if its file exists; True unless a read raised.
Loaded(index, meta, fault) ==
    LET index_read == index_file.state = "ok" /\ fault # "index_read"
        meta_exists == metadata_file.state # "absent"
        meta_read == metadata_file.state = "ok" /\ fault # "meta_read"
    IN  [faiss_index |->
             IF index_read THEN IndexOf(index_file.data) ELSE index,
         metadata |->
             IF index_read /\ meta_exists /\ meta_read
             THEN JsonLoad(metadata_file.data) ELSE meta,
         ok |-> index_read /\ (meta_exists => meta_read)]

\* load_index()
load_index(fault) ==
    LET loaded == Loaded(faiss_index, metadata, fault)
    IN  /\ faiss_index' = loaded.faiss_index
        /\ metadata' = loaded.metadata
        /\ ret' = [Call("load_index", loaded.ok, <<>>) EXCEPT !.fault = fault]
        /\ UNCHANGED <<index_file, metadata_file, last_save>>

\* 1 / (1 + distance)
similarities(dist) == Rat(1, 1 + dist)

\* seq[i] for a Python index i: a negative i counts from the end.
PyIndex(seq, i) == IF i < 0 THEN seq[Len(seq) + i + 1] ELSE seq[i + 1]

\* DistanceOf with the slot lookup lost: distances[0][0] for every result.
DistanceOfNearest(hits, idx) == hits[1].dist

\* distances[0][list(indices[0]).index(idx)]: the distance in the first slot
\* that holds the label idx.
DistanceOf(hits, idx) ==
    hits[CHOOSE s \in 1..Len(hits) :
            /\ hits[s].idx = idx
            /\ \A t \in 1..(s - 1) : hits[t].idx # idx].dist

\* The loop over zip(indices[0], similarities), from slot s on: a slot gives a
\* result when its label is below len(metadata) and its similarity reaches the
\* threshold; the result is a copy of metadata[idx] with the two scores set.
RECURSIVE NotesFrom(_, _, _, _)
NotesFrom(meta, hits, threshold, s) ==
    IF s > Len(hits) THEN <<>>
    ELSE IF /\ hits[s].idx < Len(meta)
            /\ RatGE(similarities(hits[s].dist), threshold)
         THEN <<[PyIndex(meta, hits[s].idx) EXCEPT
                    !.similarity_score = Some(similarities(hits[s].dist)),
                    !.distance = Some(DistanceOf(hits, hits[s].idx))]>>
                 \o NotesFrom(meta, hits, threshold, s + 1)
         ELSE NotesFrom(meta, hits, threshold, s + 1)

\* NotesResults with the threshold test lost.
NotesResultsUnfiltered(meta, hits, threshold) ==
    NotesFrom(meta, hits, Rat(0, 1), 1)

NotesResults(meta, hits, threshold) == NotesFrom(meta, hits, threshold, 1)

\* retrieve_notes whose first check looks at faiss_index only: with an empty
\* metadata list the query is embedded and the index searched before the loop
\* ends with nothing (or with a caught IndexError).
RetrieveNotesIndexCheckOnly(query, top_k, threshold, provider_up) ==
    LET call == [NoCall EXCEPT !.op = "retrieve_notes", !.query = query,
                               !.top_k = top_k, !.threshold = threshold]
        calls == IF query = "" THEN 0 ELSE 1
        hits == Search(faiss_index.xb, embed_text(query), top_k)
    IN  /\ ret' =
             IF faiss_index.isNone THEN call
             ELSE IF query # "" /\ ~provider_up
             THEN [call EXCEPT !.failed = TRUE, !.embed_calls = 1]
             ELSE IF top_k <= 0
             THEN [call EXCEPT !.failed = TRUE, !.embed_calls = calls]
             ELSE IF Len(metadata) = 0
             THEN [call EXCEPT !.embed_calls = calls, !.hits = hits]
             ELSE [call EXCEPT !.embed_calls = calls, !.hits = hits,
                               !.results =
                                   NotesResults(metadata, hits, threshold)]
        /\ UNCHANGED <<faiss_index, metadata, index_file, metadata_file,
                       last_save>>

\* NotesCall without its exception handler: what the embedding provider or
\* the search raises reaches the caller.
NotesCallUnhandled(query, top_k, threshold, provider_up) ==
    LET call == [NoCall EXCEPT !.op = "retrieve_notes", !.query = query,
                               !.top_k = top_k, !.threshold = threshold]
        calls == IF query = "" THEN 0 ELSE 1
        hits == Search(faiss_index.xb, embed_text(query), top_k)
    IN  IF faiss_index.isNone \/ Len(metadata) = 0 THEN call
        ELSE IF query # "" /\ ~provider_up
        THEN [call EXCEPT !.failed = TRUE, !.raised = TRUE,
                          !.embed_calls = 1]
        ELSE IF top_k <= 0
        THEN [call EXCEPT !.failed = TRUE, !.raised = TRUE,
                          !.embed_calls = calls]
        ELSE [call EXCEPT !.embed_calls = calls, !.hits = hits,
                          !.results =
                              NotesResults(metadata, hits, threshold)]

\* retrieve_notes(query, top_k, similarity_threshold): the outcome of the
\* call in the current state.  An empty query is embedded as zeros without
\* the provider; faiss's search raises unless top_k > 0; every exception
\* after the first check is caught and gives [].
NotesCall(query, top_k, threshold, provider_up) ==
    LET call == [NoCall EXCEPT !.op = "retrieve_notes", !.query = query,
                               !.top_k = top_k, !.threshold = threshold]
        calls == IF query = "" THEN 0 ELSE 1
        hits == Search(faiss_index.xb, embed_text(query), top_k)
    IN  IF faiss_index.isNone \/ Len(metadata) = 0 THEN call
        ELSE IF query # "" /\ ~provider_up
        THEN [call EXCEPT !.failed = TRUE, !.embed_calls = 1]
        ELSE IF top_k <= 0
        THEN [call EXCEPT !.failed = TRUE, !.embed_calls = calls]
        ELSE [call EXCEPT !.embed_calls = calls, !.hits = hits,
                          !.results =
                              NotesResults(metadata, hits, threshold)]

\* retrieve_notes called by a client of the RAG system; it changes nothing.
retrieve_notes(query, top_k, threshold, provider_up) ==
    /\ ret' = NotesCall(query, top_k, threshold, provider_up)
    /\ UNCHANGED <<faiss_index, metadata, index_file, metadata_file,
                   last_save>>

\* UnitPositions with the units compared as they are.
UnitPositionsCaseSensitive(meta, unit) ==
    SelectSeq([i \in 1..Len(meta) |-> i], LAMBDA i : meta[i].unit = unit)

\* The 1-based positions of the metadata dicts whose unit equals `unit`, both
\* upper-cased, in storage order.
UnitPositions(meta, unit) ==
    SelectSeq([i \in 1..Len(meta) |-> i],
              LAMBDA i : Upper(meta[i].unit) = Upper(unit))

\* The loop of retrieve_by_unit from the j-th matching dict on, the provider
\* having `budget` calls left before it raises: each dict's question is
\* embedded again (an empty one without the provider) and its cosine
\* similarity to the query is stored in the dict itself, which is the dict of
\* self.metadata.  Gives the metadata list, the calls made, and whether the
\* provider raised.
RECURSIVE ScoreFrom(_, _, _, _, _, _)
ScoreFrom(meta, positions, xq, j, budget, calls) ==
    IF j > Len(positions)
    THEN [metadata |-> meta, calls |-> calls, raised |-> FALSE]
    ELSE LET i == positions[j]
             text == meta[i].question
             need == IF text = "" THEN 0 ELSE 1
         IN  IF need > budget
             THEN [metadata |-> meta, calls |-> calls + 1, raised |-> TRUE]
             ELSE ScoreFrom(
                    [meta EXCEPT ![i].similarity_score =
                        Some(similarity(xq, embed_text(text)))],
                    positions, xq, j + 1, budget - need, calls + need)

\* x.get("similarity_score", 0)
ScoreKey(doc) ==
    IF doc.similarity_score = Absent THEN Rat(0, 1)
    ELSE doc.similarity_score[1]

\* list.sort(key=..., reverse=True): descending by key, equal keys in their
\* previous order.
RECURSIVE SortDescending(_)
SortDescending(docs) ==
    IF docs = <<>> THEN <<>>
    ELSE LET i == CHOOSE i \in 1..Len(docs) : \A j \in 1..Len(docs) :
                     \/ RatGT(ScoreKey(docs[i]), ScoreKey(docs[j]))
                     \/ /\ RatGE(ScoreKey(docs[i]), ScoreKey(docs[j]))
                        /\ i <= j
         IN  <<docs[i]>> \o
             SortDescending(SubSeq(docs, 1, i - 1) \o
                            SubSeq(docs, i + 1, Len(docs)))

\* seq[:n] for n >= 0
Head_k(seq, n) == SubSeq(seq, 1, IF n < Len(seq) THEN n ELSE Len(seq))

\* retrieve_by_unit(unit, query, top_k), query "" standing for no query.
\* budget: the calls the embedding provider answers before it raises.  There
\* is no exception handler: what the provider raises reaches the caller, after
\* the dicts scored so far were changed.
retrieve_by_unit(unit, query, top_k, budget) ==
    LET call == [NoCall EXCEPT !.op = "retrieve_by_unit", !.unit = unit,
                               !.query = query, !.top_k = top_k]
        positions == UnitPositions(metadata, unit)
        matching == [j \in 1..Len(positions) |-> metadata[positions[j]]]
        scored == ScoreFrom(metadata, positions, embed_text(query), 1,
                            budget - 1, 1)
        ranked == SortDescending(
                    [j \in 1..Len(positions) |-> scored.metadata[positions[j]]])
    IN  IF positions = <<>>
        THEN /\ ret' = call
             /\ UNCHANGED <<faiss_index, metadata, index_file, metadata_file,
                        last_save>>
        ELSE IF query = ""
        THEN /\ ret' = [call EXCEPT !.results = Head_k(matching, top_k)]
             /\ UNCHANGED <<faiss_index, metadata, index_file, metadata_file,
                        last_save>>
        ELSE IF budget < 1
        THEN /\ ret' = [call EXCEPT !.raised = TRUE, !.failed = TRUE,
                                    !.embed_calls = 1]
             /\ UNCHANGED <<faiss_index, metadata, index_file, metadata_file,
                        last_save>>
        ELSE /\ ret' = IF scored.raised
                       THEN [call EXCEPT !.raised = TRUE, !.failed = TRUE,
                                         !.embed_calls = scored.calls]
                       ELSE [call EXCEPT !.embed_calls = scored.calls,
                                         !.results = Head_k(ranked, top_k)]
             /\ metadata' = scored.metadata
             /\ UNCHANGED <<faiss_index, index_file, metadata_file, last_save>>

----------------------------------------------------------------------------
(* Text *)

\* A Python str that the orchestrator inspects is the sequence of its
\* characters.
UpperCase ==
    <<"A", "B", "C", "D", "E", "F", "G", "H", "I", "J", "K", "L", "M",
      "N", "O", "P", "Q", "R", "S", "T", "U", "V", "W", "X", "Y", "Z">>

LowerCase ==
    <<"a", "b", "c", "d", "e", "f", "g", "h", "i", "j", "k", "l", "m",
      "n", "o", "p", "q", "r", "s", "t", "u", "v", "w", "x", "y", "z">>

DigitChars == <<"0", "1", "2", "3", "4", "5", "6", "7", "8", "9">>

IsUpper(c) == \E i \in 1..26 : UpperCase[i] = c

IsLower(c) == \E i \in 1..26 : LowerCase[i] = c

IsDigit(c) == \E i \in 1..10 : DigitChars[i] = c

\* str.isspace() on one character.
IsSpace(c) == c \in {" ", "\n", "\t"}

\* \w of the re module.
IsWordChar(c) == IsUpper(c) \/ IsLower(c) \/ IsDigit(c) \/ c = "_"

LowerChar(c) ==
    IF IsUpper(c) THEN LowerCase[CHOOSE i \in 1..26 : UpperCase[i] = c]
    ELSE c

\* str.lower()
RECURSIVE Lower(_)
Lower(text) ==
    IF text = <<>> THEN <<>>
    ELSE <<LowerChar(Head(text))>> \o Lower(Tail(text))

\* str.split(): the maximal runs of characters that are not whitespace,
\* from position i on, `word` being the run under way.
RECURSIVE SplitFrom(_, _, _)
SplitFrom(text, i, word) ==
    LET done == IF word = <<>> THEN <<>> ELSE <<word>>
    IN  IF i > Len(text) THEN done
        ELSE IF IsSpace(text[i]) THEN done \o SplitFrom(text, i + 1, <<>>)
        ELSE SplitFrom(text, i + 1, Append(word, text[i]))

Split(text) == SplitFrom(text, 1, <<>>)

\* sep.join(parts)
RECURSIVE Join(_, _)
Join(parts, sep) ==
    IF parts = <<>> THEN <<>>
    ELSE IF Len(parts) = 1 THEN parts[1]
    ELSE parts[1] \o sep \o Join(Tail(parts), sep)

\* part in text
Contains(text, part) ==
    \E i \in 0..(Len(text) - Len(part)) :
        SubSeq(text, i + 1, i + Len(part)) = part

\* re.search(r'[A-Z][a-z]+[A-Z]', text): a capital, one or more small
\* letters, a capital.
HasCamelCase(text) ==
    \E i \in 1..Len(text), j \in 1..Len(text) :
        /\ i + 1 < j
        /\ IsUpper(text[i])
        /\ IsUpper(text[j])
        /\ \A m \in (i + 1)..(j - 1) : IsLower(text[m])

\* re.search(r'\b[A-Z]{2,}\b', text): two or more capitals with a word
\* boundary on both sides.
HasAcronym(text) ==
    \E i \in 1..Len(text), j \in 1..Len(text) :
        /\ i < j
        /\ \A m \in i..j : IsUpper(text[m])
        /\ i = 1 \/ ~IsWordChar(text[i - 1])
        /\ j = Len(text) \/ ~IsWordChar(text[j + 1])

----------------------------------------------------------------------------
(* MCPOrchestrator *)

\* self.exam_keywords
exam_keywords ==
    {<<"e", "x", "a", "m">>,
     <<"q", "u", "e", "s", "t", "i", "o", "n">>,
     <<"q", "u", "i", "z">>,
     <<"t", "e", "s", "t">>,
     <<"a", "s", "s", "i", "g", "n", "m", "e", "n", "t">>,
     <<"h", "o", "m", "e", "w", "o", "r", "k">>,
     <<"c", "a", "t">>,
     <<"p", "a", "s", "t", " ", "p", "a", "p", "e", "r">>,
     <<"p", "r", "e", "v", "i", "o", "u", "s">>,
     <<"m", "a", "r", "k">>,
     <<"d", "e", "f", "i", "n", "e">>,
     <<"e", "x", "p", "l", "a", "i", "n">>,
     <<"d", "e", "s", "c", "r", "i", "b", "e">>,
     <<"d", "i", "s", "c", "u", "s", "s">>,
     <<"a", "n", "a", "l", "y", "z", "e">>,
     <<"s", "o", "l", "v", "e">>,
     <<"c", "a", "l", "c", "u", "l", "a", "t", "e">>,
     <<"w", "r", "i", "t", "e">>,
     <<"d", "e", "s", "i", "g", "n">>,
     <<"i", "m", "p", "l", "e", "m", "e", "n", "t">>}

\* The words of the specificity factor.
SpecificityWords ==
    {<<"u", "n", "i", "t">>,
     <<"c", "o", "u", "r", "s", "e">>,
     <<"y", "e", "a", "r">>,
     <<"p", "a", "p", "e", "r">>}

\* Factor 1: the number of words of the query.
QueryLengthScore(query) ==
    LET query_length == Len(Split(query))
    IN  IF query_length > 10 THEN 20
        ELSE IF query_length > 5 THEN 10
        ELSE 0

\* ExamKeywordScore with the cap of three tenths lost.
ExamKeywordScoreUncapped(query) ==
    LET query_lower == Lower(query)
        exam_keyword_count ==
            Cardinality({kw \in exam_keywords : Contains(query_lower, kw)})
    IN  exam_keyword_count * 10

\* Factor 2: the exam keywords that occur in the lower-cased query, a tenth
\* each, three tenths at most.
ExamKeywordScore(query) ==
    LET query_lower == Lower(query)
        exam_keyword_count ==
            Cardinality({kw \in exam_keywords : Contains(query_lower, kw)})
    IN  IF exam_keyword_count > 0
        THEN (IF exam_keyword_count * 10 < 30
              THEN exam_keyword_count * 10 ELSE 30)
        ELSE 0

\* Factor 3: CamelCase and acronyms.
TechnicalScore(query) ==
    (IF HasCamelCase(query) THEN 15 ELSE 0)
        + (IF HasAcronym(query) THEN 15 ELSE 0)

\* Factor 4: a word of specific context in the lower-cased query.
SpecificityScore(query) ==
    LET query_lower == Lower(query)
    IN  IF \E word \in SpecificityWords : Contains(query_lower, word)
        THEN 20 ELSE 0

\* The confidence should_use_rag computes: score / max_score, both in
\* hundredths.
Confidence(query) ==
    LET score == QueryLengthScore(query) + ExamKeywordScore(query)
                     + TechnicalScore(query) + SpecificityScore(query)
        max_score == 20 + 30 + 30 + 20
    IN  Rat(score, max_score)

\* The queries of the decision scenarios.
WeatherQuery ==
    <<"W", "h", "a", "t", " ", "i", "s", " ", "t", "h", "e", " ", "w", "e",
      "a", "t", "h", "e", "r", " ", "t", "o", "d", "a", "y", "?">>

PythonQuery ==
    <<"W", "h", "a", "t", " ", "i", "s", " ", "P", "y", "t", "h", "o", "n",
      "?">>

DefineLongQuery ==
    <<"D", "e", "f", "i", "n", "e", " ", "o", "b", "j", "e", "c", "t", "-",
      "o", "r", "i", "e", "n", "t", "e", "d", " ", "p", "r", "o", "g", "r",
      "a", "m", "m", "i", "n", "g", " ", "a", "n", "d", " ", "e", "x", "p",
      "l", "a", "i", "n", " ", "i", "t", "s", " ", "p", "r", "i", "n", "c",
      "i", "p", "l", "e", "s">>

DefineOOPQuery ==
    <<"D", "e", "f", "i", "n", "e", " ", "O", "O", "P", " ", "a", "n", "d",
      " ", "e", "x", "p", "l", "a", "i", "n", " ", "i", "t", "s", " ", "p",
      "r", "i", "n", "c", "i", "p", "l", "e", "s">>

\* A query that names many exam keywords.
ManyKeywordsQuery ==
    <<"D", "e", "f", "i", "n", "e", ",", " ", "e", "x", "p", "l", "a", "i",
      "n", " ", "a", "n", "d", " ", "d", "e", "s", "c", "r", "i", "b", "e",
      ":", " ", "s", "o", "l", "v", "e", " ", "t", "h", "e", " ", "t", "e",
      "s", "t", " ", "q", "u", "e", "s", "t", "i", "o", "n", " ", "o", "f",
      " ", "t", "h", "e", " ", "p", "a", "s", "t", " ", "p", "a", "p", "e",
      "r", " ", "e", "x", "a", "m", " ", "q", "u", "i", "z">>

\* A query that names a compound identifier.
CamelCaseQuery ==
    <<"W", "h", "a", "t", " ", "d", "o", "e", "s", " ", "c", "a", "m", "e",
      "l", "C", "a", "s", "e", " ", "m", "e", "a", "n", "?">>

\* The words further queries are made of, and the queries: the scenario
\* queries and every sequence of at most MaxWords words, single spaces
\* between them (the empty query included).
WordPool ==
    {<<"e", "x", "a", "m">>, <<"p", "a", "s", "t">>,
     <<"p", "a", "p", "e", "r">>, <<"O", "O", "P">>,
     <<"D", "a", "t", "a", "B", "a", "s", "e">>}

MaxWords == 3

DecisionQueries ==
    {WeatherQuery, PythonQuery, DefineLongQuery, DefineOOPQuery,
     ManyKeywordsQuery, CamelCaseQuery}
        \cup {Join(ws, <<" ">>) :
                  ws \in UNION {[1..n -> WordPool] : n \in 0..MaxWords}}

\* The thresholds an orchestrator is configured with; 1/2 is the default.
UseRagThresholds == {Rat(1, 2), Rat(3, 10), Rat(0, 1)}

\* MCPOrchestrator(rag_system, mcp_client, use_rag_threshold).  rag_system
\* tells whether self.rag_system ends up a RAGSystem or None.
MCPOrchestrator(rag_system, use_rag_threshold) ==
    /\ orchestrator' =
           [constructed |-> TRUE, rag_system |-> rag_system,
            use_rag_threshold |-> use_rag_threshold]
    /\ turn' = [NoTurn EXCEPT !.op = "new"]
    /\ UNCHANGED <<faiss_index, metadata, index_file, metadata_file, ret,
                   last_save, topic_cache, cache_log>>

\* UseRag with the comparison turned round.
UseRagBelowThreshold(confidence, threshold) == RatGE(threshold, confidence)

\* use_rag = confidence >= self.use_rag_threshold
UseRag(confidence, threshold) == RatGE(confidence, threshold)

\* should_use_rag(query): the pair (use_rag, confidence).
should_use_rag(query) ==
    LET confidence == Confidence(query)
    IN  /\ orchestrator.constructed
        /\ turn' =
               [NoTurn EXCEPT
                   !.op = "should_use_rag", !.query = query,
                   !.confidence = confidence,
                   !.use_rag =
                       UseRag(confidence, orchestrator.use_rag_threshold)]
        /\ UNCHANGED <<faiss_index, metadata, index_file, metadata_file,
                       ret, last_save, orchestrator,
                   topic_cache, cache_log>>

\* n copies of the text.
Repeat(text, n) ==
    [i \in 1..(n * Len(text)) |-> text[((i - 1) % Len(text)) + 1]]

\* A question text of 600 characters.
LongText == "x * 600"

\* The characters of the strings that name question texts, unit codes and
\* queries in this model.
Chars(s) ==
    CASE s = "what is oop" ->
            <<"w", "h", "a", "t", " ", "i", "s", " ", "o", "o", "p">>
      [] s = "define a class" ->
            <<"d", "e", "f", "i", "n", "e", " ", "a", " ", "c", "l", "a", "s",
              "s">>
      [] s = "normalise a table" ->
            <<"n", "o", "r", "m", "a", "l", "i", "s", "e", " ", "a", " ", "t",
              "a", "b", "l", "e">>
      [] s = "BBIT106" -> <<"B", "B", "I", "T", "1", "0", "6">>
      [] s = "bbit106" -> <<"b", "b", "i", "t", "1", "0", "6">>
      [] s = "BIT210" -> <<"B", "I", "T", "2", "1", "0">>
      [] s = "CS999" -> <<"C", "S", "9", "9", "9">>
      [] s = "OOP" -> <<"O", "O", "P">>
      [] s = "oop" -> <<"o", "o", "p">>
      [] s = "DBMS" -> <<"D", "B", "M", "S">>
      [] s = "Define OOP for the unit exam" ->
            <<"D", "e", "f", "i", "n", "e", " ", "O", "O", "P", " ", "f", "o",
              "r", " ", "t", "h", "e", " ", "u", "n", "i", "t", " ", "e", "x",
              "a", "m">>
      [] s = LongText -> Repeat(<<"x">>, 600)
      [] OTHER -> <<>>

\* str(n) for an integer n >= 0.
RECURSIVE Str(_)
Str(n) ==
    IF n < 10 THEN <<DigitChars[n + 1]>>
    ELSE Str(n \div 10) \o <<DigitChars[(n % 10) + 1]>>

\* f"{similarity:.2%}" for a similarity num/den >= 0: the percentage rounded
\* to two decimals (a tie goes to the even digit) and a percent sign.
Percent(value) ==
    LET n == value.num * 10000
        d == value.den
        floor == n \div d
        h == IF 2 * (n % d) > d THEN floor + 1
             ELSE IF 2 * (n % d) < d THEN floor
             ELSE IF floor % 2 = 0 THEN floor ELSE floor + 1
    IN  Str(h \div 100) \o <<".">>
            \o <<DigitChars[((h % 100) \div 10) + 1],
                 DigitChars[(h % 10) + 1], "%">>

Header ==
    <<"R", "E", "L", "E", "V", "A", "N", "T", " ", "P", "A", "S", "T", " ",
      "P", "A", "P", "E", "R", " ", "Q", "U", "E", "S", "T", "I", "O", "N",
      "S", ":">>

\* "-" * 50
Separator == Repeat(<<"-">>, 50)

\* question_text[:500] with the whole text.
ExcerptWhole(question_text) == question_text

\* question_text[:500]
Excerpt(question_text) ==
    IF Len(question_text) <= 500 THEN question_text
    ELSE SubSeq(question_text, 1, 500)

\* q.get("similarity_score", 0)
SimilarityOf(q) ==
    IF q.similarity_score = Absent THEN Rat(0, 1) ELSE q.similarity_score[1]

\* The marker and the unit / year / relevance line of entry i, between its
\* two newlines.
EntryLine(i, q) ==
    <<"\n", "[", "Q">> \o Str(i) \o <<"]", " ", "U", "n", "i", "t", ":", " ">>
        \o Chars(q.unit)
        \o <<",", " ", "Y", "e", "a", "r", ":", " ">> \o Str(q.year)
        \o <<" ", "(", "R", "e", "l", "e", "v", "a", "n", "c", "e", ":", " ">>
        \o Percent(SimilarityOf(q)) \o <<")", "\n">>

\* entry = f"\n[Q{i}] Unit: {unit}, Year: {year} (Relevance: ...)\n{text}"
Entry(i, q) == EntryLine(i, q) \o Excerpt(Chars(q.question))

\* Omitted with the overflowing entry left out of the count.
OmittedAfter(retrieved_questions, i) == Len(retrieved_questions) - i

\* len(retrieved_questions) - i + 1
Omitted(retrieved_questions, i) == Len(retrieved_questions) - i + 1

\* f"\n... and {n} more questions"
Trailer(n) ==
    <<"\n", ".", ".", ".", " ", "a", "n", "d", " ">> \o Str(n)
        \o <<" ", "m", "o", "r", "e", " ">>
        \o <<"q", "u", "e", "s", "t", "i", "o", "n", "s">>

\* The loop of format_context from entry i on, total_length being the
\* length of the entries appended so far: what it appends to context_parts.
RECURSIVE ContextParts(_, _, _, _)
ContextParts(retrieved_questions, i, total_length, max_context_length) ==
    IF i > Len(retrieved_questions) THEN <<>>
    ELSE LET entry == Entry(i, retrieved_questions[i])
         IN  IF total_length + Len(entry) > max_context_length
             THEN <<Trailer(Omitted(retrieved_questions, i))>>
             ELSE <<entry>>
                      \o ContextParts(retrieved_questions, i + 1,
                                      total_length + Len(entry),
                                      max_context_length)

\* The string format_context returns.
Context(retrieved_questions, max_context_length) ==
    IF retrieved_questions = <<>> THEN <<>>
    ELSE Join(<<Header, Separator>>
                  \o ContextParts(retrieved_questions, 1, 0,
                                  max_context_length),
              <<"\n">>)

\* The result dicts format_context is given: dicts as retrieve_notes returns
\* them, and one without similarity_score.
R1 ==
    [QuestionMetadata(Q1) EXCEPT
        !.similarity_score = Some(Rat(1, 1)), !.distance = Some(0)]

R2 ==
    [QuestionMetadata(Q3) EXCEPT
        !.similarity_score = Some(Rat(1, 3)), !.distance = Some(2)]

R3 ==
    QuestionMetadata([question |-> LongText, unit |-> "BIT210",
                      year |-> 2022])

MaxResults == 2

ResultLists ==
    UNION {[1..n -> {R1, R2, R3}] : n \in 0..MaxResults}

\* max_context_length values; 2000 is the default.
MaxContextLengths == {0, 60, 70, 140, 600, 2000}

\* format_context(retrieved_questions, max_context_length)
format_context(retrieved_questions, max_context_length) ==
    /\ orchestrator.constructed
    /\ turn' =
           [NoTurn EXCEPT
               !.op = "format_context", !.results = retrieved_questions,
               !.max_context_length = max_context_length,
               !.context =
                   Context(retrieved_questions, max_context_length)]
    /\ UNCHANGED <<faiss_index, metadata, index_file, metadata_file, ret,
                   last_save, orchestrator,
                   topic_cache, cache_log>>

\* The queries answer_question is called with, the modes, and the answers
\* of the MCP client (Absent is None, its signal that there is no answer).
AnswerQueries == {"", "what is oop", "Define OOP for the unit exam"}

Modes == {"exam", "local"}

Answers == {Absent, Some(""), Some("an answer")}

\* A call answer_question makes: to the RAG system (retrieve_notes with the
\* query and top_k; failed tells that the embedding provider or the index
\* search raised inside it) or to the MCP client
\* (answer_question_with_context with the prompt, the context and the mode,
\* and the answer it gave).
NotesCallOf(query, top_k, failed) ==
    [op |-> "retrieve_notes", prompt |-> query, context |-> Absent,
     mode |-> "", top_k |-> top_k, result |-> Absent, failed |-> failed]

\* ClientCall without mode=mode: the client's default mode.
ClientCallDefaultMode(combined_query, context, mode, answer) ==
    [op |-> "answer_question_with_context", prompt |-> combined_query,
     context |-> IF context # <<>> THEN Some(context) ELSE Absent,
     mode |-> "exam", top_k |-> 0, result |-> answer, failed |-> FALSE]

\* self.mcp_client.answer_question_with_context(combined_query,
\*     context=context if context else None, mode=mode)
ClientCall(combined_query, context, mode, answer) ==
    [op |-> "answer_question_with_context", prompt |-> combined_query,
     context |-> IF context # <<>> THEN Some(context) ELSE Absent,
     mode |-> mode, top_k |-> 0, result |-> answer, failed |-> FALSE]

\* Decision that scores the query whatever the override.
DecisionByScore(use_rag, query) ==
    UseRag(Confidence(query), orchestrator.use_rag_threshold)

\* The decision of answer_question: should_use_rag(query) when use_rag is
\* None, else use_rag.
Decision(use_rag, query) ==
    IF use_rag = Absent
    THEN UseRag(Confidence(query), orchestrator.use_rag_threshold)
    ELSE use_rag[1]

\* The text between context and query in combined_query.
QuestionSeparator ==
    <<"\n", "\n", "Q", "U", "E", "S", "T", "I", "O", "N", ":", "\n">>

\* CombinedQuery that joins context and query even when context is empty.
CombinedQueryAlways(context, query) ==
    context \o QuestionSeparator \o query

\* combined_query: f"{context}\n\nQUESTION:\n{query}" when there is a context,
\* else the query.
CombinedQuery(context, query) ==
    IF context # <<>>
    THEN context \o QuestionSeparator \o query
    ELSE query

\* DefaultContext with a limit of 60 characters.
DefaultContextShort(retrieved_questions) ==
    Context(retrieved_questions, 60)

\* self.format_context(retrieved): max_context_length has its default 2000.
DefaultContext(retrieved_questions) ==
    Context(retrieved_questions, 2000)

\* The outcome of answer_question(query, mode, use_rag, top_k).  provider_up
\* tells whether the embedding provider answers during the call, answer is
\* what the MCP client returns.  retrieve_notes runs with its default
\* threshold 0.3 and format_context with its default limit.  There is no
\* exception handler: what a call raises reaches the caller.
AnswerTurn(query, mode, use_rag, top_k, provider_up, answer) ==
    LET text == Chars(query)
        decision == Decision(use_rag, text)
        retrieves == decision /\ orchestrator.rag_system
        notes == NotesCall(query, top_k, Rat(3, 10), provider_up)
        retrieved == IF retrieves THEN notes.results ELSE <<>>
        context ==
            IF retrieved # <<>> THEN DefaultContext(retrieved) ELSE <<>>
        combined_query == CombinedQuery(context, text)
        rag_calls ==
            IF retrieves THEN <<NotesCallOf(text, top_k, notes.failed)>>
            ELSE <<>>
        called ==
            [NoTurn EXCEPT
                !.op = "answer_question", !.query = text, !.mode = mode,
                !.override = use_rag, !.top_k = top_k,
                !.use_rag = decision,
                !.confidence =
                    IF use_rag = Absent THEN Confidence(text)
                    ELSE Rat(0, 1),
                !.max_context_length = 2000,
                !.calls = rag_calls]
    IN  IF retrieves /\ notes.raised
        THEN [called EXCEPT !.raised = TRUE]
        ELSE [called EXCEPT
                 !.results = retrieved, !.context = context,
                 !.calls =
                     rag_calls \o <<ClientCall(combined_query, context, mode,
                                               answer)>>,
                 !.answer = answer]

\* answer_question called by a client of the orchestrator.
answer_question(query, mode, use_rag, top_k, provider_up, answer) ==
    /\ orchestrator.constructed
    /\ turn' = AnswerTurn(query, mode, use_rag, top_k, provider_up, answer)
    /\ UNCHANGED <<faiss_index, metadata, index_file, metadata_file,
                   ret, last_save, orchestrator,
                   topic_cache, cache_log>>

\* The lists batch_answer_questions is called with: at most MaxBatch
\* queries, repetitions included.
MaxBatch == 3

BatchQueries == {"what is oop", "Define OOP for the unit exam"}

BatchLists == UNION {[1..n -> BatchQueries] : n \in 0..MaxBatch}

\* What the MCP client returns to a call of a batch: None or an answer.
BatchAnswers == {Absent, Some("an answer")}

\* dict.setdefault(key, value): the first value of a key stays.
DictSetDefault(dict, key, value) ==
    [k \in DOMAIN dict \cup {key} |->
        IF k \in DOMAIN dict THEN dict[k] ELSE value]

\* dict[key] = value
DictSet(dict, key, value) ==
    [k \in DOMAIN dict \cup {key} |-> IF k = key THEN value ELSE dict[k]]

\* top_k of answer_question when the caller names none.
DefaultTopK == 3

\* The loop of batch_answer_questions from the i-th query on: each query
\* goes through answer_question with the mode and the use_rag of the batch,
\* and its answer is stored under the query.  provided[i] is what the MCP
\* client returns to the i-th call.
RECURSIVE BatchFrom(_, _, _, _, _, _, _)
BatchFrom(queries, i, mode, use_rag, provider_up, provided, batch) ==
    IF i > Len(queries) THEN batch
    ELSE LET answered ==
                 AnswerTurn(queries[i], mode, Some(use_rag), DefaultTopK,
                            provider_up, provided[i])
             called == [batch EXCEPT !.turns = Append(@, answered),
                                     !.calls = @ \o answered.calls]
         IN  IF answered.raised THEN [called EXCEPT !.raised = TRUE]
             ELSE BatchFrom(queries, i + 1, mode, use_rag, provider_up,
                            provided,
                            [called EXCEPT
                                !.answers =
                                    DictSet(@, answered.query,
                                            answered.answer)])

\* batch_answer_questions(queries, mode, use_rag)
batch_answer_questions(queries, mode, use_rag, provider_up, provided) ==
    /\ orchestrator.constructed
    /\ turn' =
           BatchFrom(queries, 1, mode, use_rag, provider_up, provided,
                     [NoTurn EXCEPT
                         !.op = "batch_answer_questions",
                         !.queries = [i \in 1..Len(queries) |->
                                         Chars(queries[i])],
                         !.mode = mode, !.override = Some(use_rag)])
    /\ UNCHANGED <<faiss_index, metadata, index_file, metadata_file,
                   ret, last_save, orchestrator,
                   topic_cache, cache_log>>

----------------------------------------------------------------------------
(* RAGSystem: the topic cache *)

\* The topics and the lists cache_topic is called with, and how many
\* cache_topic calls an instance receives.
Topics == {"OOP", "oop", "DBMS"}

CacheLists == {<<>>, <<Q2, Q1>>}

MaxCached == 2

\* CacheKey that keeps the topic as it is written.
CacheKeyExact(topic) == Chars(topic)

\* topic.lower(), the key of the topic in self.topic_cache.
CacheKey(topic) == Lower(Chars(topic))

\* cache_topic(topic, questions)
cache_topic(topic, questions) ==
    /\ topic_cache' = DictSet(topic_cache, CacheKey(topic), questions)
    /\ cache_log' =
           Append(cache_log, [topic |-> topic, questions |-> questions])
    /\ ret' = [NoCall EXCEPT !.op = "cache_topic", !.topic = topic,
                             !.questions = questions]
    /\ UNCHANGED <<faiss_index, metadata, index_file, metadata_file,
                   last_save, orchestrator, turn>>

\* get_cached_topic(topic): self.topic_cache.get(topic.lower())
get_cached_topic(topic) ==
    /\ ret' = [NoCall EXCEPT
                  !.op = "get_cached_topic", !.topic = topic,
                  !.cached =
                      IF CacheKey(topic) \in DOMAIN topic_cache
                      THEN Some(topic_cache[CacheKey(topic)])
                      ELSE Absent]
    /\ UNCHANGED <<faiss_index, metadata, index_file, metadata_file,
                   last_save, orchestrator, turn, topic_cache, cache_log>>

----------------------------------------------------------------------------
(* initialize_rag_system *)

\* What load_questions() finds: no readable questions file (Absent), or the
\* questions of the file.
Sources == {Absent, Some(<<>>), Some(<<Q1>>), Some(<<Q3, Q1>>)}

\* A step of initialize_rag_system and whether it succeeded.
Step(op, ok) == [op |-> op, ok |-> ok]

\* TriesLoad that ignores force_rebuild.
TriesLoadAlways(force_rebuild) == TRUE

\* "not force_rebuild and rag.load_index()": load_index is called only when
\* no rebuild is forced.
TriesLoad(force_rebuild) == ~force_rebuild

\* ServiceAfterSave that gives the service up when the save failed.
ServiceAfterSaveChecked(saved_ok) == saved_ok

\* "rag.save_index()" then "return rag": the result of the save is dropped.
ServiceAfterSave(saved_ok) == TRUE

\* initialize_rag_system(force_rebuild): a new RAGSystem; load_index unless
\* a rebuild is forced; when nothing was loaded, the questions of the
\* source, build_index and save_index.  What load_questions raises is caught
\* and gives None, as a failed build does.  up: the embedding provider
\* answers.
initialize_rag_system(force_rebuild, load_fault, source, up, save_fault) ==
    LET tries == TriesLoad(force_rebuild)
        loaded ==
            IF tries THEN Loaded(None, <<>>, load_fault)
            ELSE [faiss_index |-> None, metadata |-> <<>>, ok |-> FALSE]
        questions == IF source = Absent THEN <<>> ELSE source[1]
        built ==
            IF source = Absent
            THEN [faiss_index |-> loaded.faiss_index,
                  metadata |-> loaded.metadata, ok |-> FALSE]
            ELSE Built(loaded.faiss_index, loaded.metadata, questions, up)
        saved == Saved(built.faiss_index, built.metadata, save_fault)
        rebuilt == ~loaded.ok /\ built.ok
        rebuild ==
            <<Step("load_questions", source # Absent)>>
                \o (IF source = Absent THEN <<>>
                    ELSE <<Step("get_all_questions", TRUE),
                           Step("build_index", built.ok)>>)
                \o (IF built.ok THEN <<Step("save_index", saved.ok)>>
                    ELSE <<>>)
    IN  /\ faiss_index' =
               IF loaded.ok THEN loaded.faiss_index ELSE built.faiss_index
        /\ metadata' = IF loaded.ok THEN loaded.metadata ELSE built.metadata
        /\ index_file' = IF rebuilt THEN saved.index_file ELSE index_file
        /\ metadata_file' =
               IF rebuilt THEN saved.metadata_file ELSE metadata_file
        /\ last_save' = IF rebuilt THEN saved.last_save ELSE last_save
        /\ topic_cache' = <<>>
        /\ cache_log' = <<>>
        /\ turn' =
               [NoTurn EXCEPT
                   !.op = "initialize_rag_system",
                   !.force_rebuild = force_rebuild,
                   !.calls =
                       <<Step("RAGSystem", TRUE)>>
                           \o (IF tries
                               THEN <<Step("load_index", loaded.ok)>>
                               ELSE <<>>)
                           \o (IF loaded.ok THEN <<>> ELSE rebuild),
                   !.service =
                       \/ loaded.ok
                       \/ rebuilt /\ ServiceAfterSave(saved.ok)]
        /\ UNCHANGED <<ret, orchestrator>>

\* The caller takes the outcome of the call; the next call can start.
Return ==
    /\ ret # NoCall
    /\ ret' = NoCall
    /\ UNCHANGED <<faiss_index, metadata, index_file, metadata_file,
                        last_save>>

Idle == ret = NoCall /\ turn = NoTurn

\* The index life cycle: construction, build, update, save and load, with the
\* file-system faults of save and load.
Next ==
    \/ Return /\ UNCHANGED untouched
    \/ Idle /\ New /\ UNCHANGED <<orchestrator, turn>>
    \/ \E qs \in PersistLists, up \in BOOLEAN :
          /\ Idle /\ Len(qs) <= MaxDocs /\ build_index(qs, up)
          /\ UNCHANGED untouched
    \/ \E qs \in PersistLists, up \in BOOLEAN :
          /\ Idle
          /\ ntotal + Len(qs) <= MaxDocs
          /\ Len(metadata) + Len(qs) <= MaxDocs
          /\ update_index(qs, up)
          /\ UNCHANGED untouched
    \/ \E f \in SaveFaults :
          Idle /\ save_index(f) /\ UNCHANGED untouched
    \/ \E f \in LoadFaults :
          Idle /\ load_index(f) /\ UNCHANGED untouched

Spec == Init /\ [][Next]_vars

\* Retrieval on an index that is built, extended, saved and loaded again.
RetrievalNext ==
    \/ Return /\ UNCHANGED untouched
    \/ Idle /\ New /\ UNCHANGED <<orchestrator, turn>>
    \/ \E qs \in RetrievalLists, up \in BOOLEAN :
          /\ Idle /\ Len(qs) <= MaxDocs /\ build_index(qs, up)
          /\ UNCHANGED untouched
    \/ \E qs \in RetrievalUpdates :
          /\ Idle
          /\ ntotal + Len(qs) <= MaxDocs
          /\ Len(metadata) + Len(qs) <= MaxDocs
          /\ update_index(qs, TRUE)
          /\ UNCHANGED untouched
    \/ \E f \in {"none", "meta_open"} :
          Idle /\ save_index(f) /\ UNCHANGED untouched
    \/ Idle /\ load_index("none") /\ UNCHANGED untouched
    \/ \E q \in Queries, k \in 0..MaxTopK, t \in Thresholds, up \in BOOLEAN :
          /\ Idle /\ retrieve_notes(q, k, t, up)
          /\ UNCHANGED untouched
    \/ \E u \in UnitArgs, q \in Queries, k \in 0..MaxTopK,
          b \in 0..(MaxDocs + 1) :
          /\ Idle /\ retrieve_by_unit(u, q, k, b)
          /\ UNCHANGED untouched

RetrievalSpec == Init /\ [][RetrievalNext]_vars

\* Retrieval by unit, with and without a query, on every small index.
UnitNext ==
    \/ Return /\ UNCHANGED untouched
    \/ \E qs \in UnitLists :
          Idle /\ build_index(qs, TRUE) /\ UNCHANGED untouched
    \/ \E u \in UnitArgs, q \in UnitQueries, k \in 0..MaxTopK,
          b \in 0..(MaxDocs + 1) :
          /\ Idle /\ retrieve_by_unit(u, q, k, b)
          /\ UNCHANGED untouched

UnitSpec == Init /\ [][UnitNext]_vars

\* The topic cache of an instance between index operations and retrievals.
CacheNext ==
    \/ Return /\ UNCHANGED untouched
    \/ Idle /\ New /\ UNCHANGED <<orchestrator, turn>>
    \/ Idle /\ build_index(<<Q1>>, TRUE) /\ UNCHANGED untouched
    \/ /\ Idle
       /\ ntotal + 1 <= MaxDocs
       /\ Len(metadata) + 1 <= MaxDocs
       /\ update_index(<<Q2>>, TRUE)
       /\ UNCHANGED untouched
    \/ Idle /\ save_index("none") /\ UNCHANGED untouched
    \/ Idle /\ load_index("none") /\ UNCHANGED untouched
    \/ /\ Idle /\ retrieve_notes("what is oop", 1, Rat(3, 10), TRUE)
       /\ UNCHANGED untouched
    \/ /\ Idle /\ retrieve_by_unit("bbit106", "what is oop", 1, 2)
       /\ UNCHANGED untouched
    \/ \E topic \in Topics, questions \in CacheLists :
          Idle /\ Len(cache_log) < MaxCached /\ cache_topic(topic, questions)
    \/ \E topic \in Topics : Idle /\ get_cached_topic(topic)

CacheSpec == Init /\ [][CacheNext]_vars

\* The caller takes the outcome of the orchestrator call.
TurnReturn ==
    /\ turn # NoTurn
    /\ turn' = NoTurn
    /\ UNCHANGED <<faiss_index, metadata, index_file, metadata_file, ret,
                   last_save, orchestrator,
                   topic_cache, cache_log>>

\* The retrieval decision: orchestrators with and without a RAG system and
\* with several thresholds, asked about the decision queries.
DecisionNext ==
    \/ Return /\ UNCHANGED untouched
    \/ TurnReturn
    \/ Idle /\ build_index(<<Q1>>, TRUE) /\ UNCHANGED untouched
    \/ \E rag_system \in BOOLEAN, t \in UseRagThresholds :
          Idle /\ MCPOrchestrator(rag_system, t)
    \/ \E q \in DecisionQueries : Idle /\ should_use_rag(q)

DecisionSpec == Init /\ [][DecisionNext]_vars

\* The context assembly on result lists of every shape.
FormatNext ==
    \/ TurnReturn
    \/ \E rag_system \in BOOLEAN :
          Idle /\ MCPOrchestrator(rag_system, Rat(1, 2))
    \/ \E rs \in ResultLists, m \in MaxContextLengths :
          Idle /\ format_context(rs, m)

FormatSpec == Init /\ [][FormatNext]_vars

\* Questions answered by orchestrators with and without a RAG system, over
\* an index that is absent, empty or built.
OrchestratorNext ==
    \/ Return /\ UNCHANGED untouched
    \/ TurnReturn
    \/ \E qs \in RetrievalLists :
          /\ Idle /\ Len(qs) <= MaxDocs /\ build_index(qs, TRUE)
          /\ UNCHANGED untouched
    \/ \E rag_system \in BOOLEAN, t \in UseRagThresholds :
          Idle /\ MCPOrchestrator(rag_system, t)
    \/ \E q \in AnswerQueries, mode \in Modes,
          use_rag \in {Absent, Some(TRUE), Some(FALSE)}, k \in 0..MaxTopK,
          up \in BOOLEAN, answer \in Answers :
          Idle /\ answer_question(q, mode, use_rag, k, up, answer)

OrchestratorSpec == Init /\ [][OrchestratorNext]_vars

\* The context assembly called directly, with any limit, and by
\* answer_question, with its default limit, over the same indexes.
ContextNext ==
    \/ Return /\ UNCHANGED untouched
    \/ TurnReturn
    \/ \E qs \in RetrievalLists :
          /\ Idle /\ Len(qs) <= MaxDocs /\ build_index(qs, TRUE)
          /\ UNCHANGED untouched
    \/ \E rag_system \in BOOLEAN :
          Idle /\ MCPOrchestrator(rag_system, Rat(1, 2))
    \/ \E rs \in ResultLists, m \in MaxContextLengths :
          Idle /\ format_context(rs, m)
    \/ \E q \in AnswerQueries, use_rag \in {Absent, Some(TRUE)},
          k \in 0..MaxTopK, answer \in Answers :
          Idle /\ answer_question(q, "exam", use_rag, k, TRUE, answer)

ContextSpec == Init /\ [][ContextNext]_vars

\* Batches of questions, repeated ones included, answered by orchestrators
\* with and without a RAG system.
BatchNext ==
    \/ Return /\ UNCHANGED untouched
    \/ TurnReturn
    \/ Idle /\ build_index(<<Q1>>, TRUE) /\ UNCHANGED untouched
    \/ \E rag_system \in BOOLEAN :
          Idle /\ MCPOrchestrator(rag_system, Rat(1, 2))
    \/ \E qs \in BatchLists, mode \in Modes, use_rag \in BOOLEAN,
          up \in BOOLEAN :
          \E provided \in [1..Len(qs) -> BatchAnswers] :
              Idle /\ batch_answer_questions(qs, mode, use_rag, up, provided)

BatchSpec == Init /\ [][BatchNext]_vars

\* Start-up: initialize_rag_system over the files that earlier runs, saves
\* and faults left behind.
StartupNext ==
    \/ Return /\ UNCHANGED untouched
    \/ TurnReturn
    \/ \E f \in SaveFaults : Idle /\ save_index(f) /\ UNCHANGED untouched
    \/ \E f \in LoadFaults : Idle /\ load_index(f) /\ UNCHANGED untouched
    \/ \E force_rebuild \in BOOLEAN, lf \in LoadFaults, source \in Sources,
          up \in BOOLEAN, sf \in SaveFaults :
          Idle /\ initialize_rag_system(force_rebuild, lf, source, up, sf)

StartupSpec == Init /\ [][StartupNext]_vars




----------------------------------------------------------------------------
(* Claims *)

Min(a, b) == IF a <= b THEN a ELSE b

\* C1: in every state reached by build_index, update_index, load_index and
\* save_index calls, failed or not, the number of vectors in the index equals
\* the number of metadata entries.
VectorCountEqualsMetadataCount == ntotal = Len(metadata)

\* C2: retrieve_notes(query, top_k, threshold) returns at most top_k entries,
\* and every entry's similarity_score is at least the threshold.
NotesWithinTopKAndThreshold ==
    ret.op = "retrieve_notes" =>
        /\ Len(ret.results) <= ret.top_k
        /\ \A i \in 1..Len(ret.results) :
              /\ ret.results[i].similarity_score # Absent
              /\ RatGE(ret.results[i].similarity_score[1], ret.threshold)

\* C2 happens: of two indexed questions found by a search with top_k = 2, the
\* default threshold 3/10 lets one through.
NotesThresholdDropsOne ==
    /\ ret.op = "retrieve_notes"
    /\ ret.top_k = 2
    /\ ntotal = 2
    /\ ret.threshold = Rat(3, 10)
    /\ Len(ret.hits) = 2
    /\ Len(ret.results) = 1

\* C3: when top_k exceeds the number n of indexed documents, retrieve_notes
\* returns at most min(top_k, n) results, whatever the threshold, and no
\* result comes from a slot the search could not fill.
NotesOnlyFromFilledSlots ==
    (ret.op = "retrieve_notes" /\ ret.top_k > ntotal) =>
        /\ Len(ret.results) <= Min(ret.top_k, ntotal)
        /\ \A i \in 1..Len(ret.results) :
              ret.results[i].distance # Some(FLT_MAX)

\* C4: retrieve_notes on an index never built or loaded, or holding no
\* documents, returns an empty list, raises nothing and does not call the
\* embedding provider.
NotesOnEmptyIndex ==
    (/\ ret.op = "retrieve_notes"
     /\ (faiss_index.isNone \/ Len(metadata) = 0)) =>
        /\ ret.results = <<>>
        /\ ~ret.raised
        /\ ~ret.failed
        /\ ret.embed_calls = 0

\* C4 happens: a loaded index with an empty metadata list is asked a
\* non-empty query with a positive top_k.
NotesAskedOnLoadedIndexWithoutDocuments ==
    /\ ret.op = "retrieve_notes"
    /\ ~faiss_index.isNone
    /\ ntotal > 0
    /\ Len(metadata) = 0
    /\ ret.query # ""
    /\ ret.top_k > 0

\* C5: when the embedding provider or the index fails during retrieve_notes
\* or retrieve_by_unit, the call returns an empty list and no exception
\* reaches the caller.
RetrievalFailureGivesEmptyList ==
    (ret.op \in {"retrieve_notes", "retrieve_by_unit"} /\ ret.failed) =>
        ret.results = <<>> /\ ~ret.raised

LoadFailsOnMissingFile ==
    (/\ ret.op = "load_index"
     /\ (index_file.state = "absent" \/ metadata_file.state = "absent")) =>
        ~ret.ok /\ ~ret.raised

\* C8: a load_index that finds a saved vector count different from the saved
\* metadata count does not return True, so that no load_index that returned
\* True leaves an index whose vector count differs from its metadata count.
LoadRejectsCountMismatch ==
    (/\ ret.op = "load_index"
     /\ index_file.state = "ok"
     /\ metadata_file.state = "ok"
     /\ Len(index_file.data) # Len(metadata_file.data)) =>
        ~ret.ok

IsResultOfHit(r, h, threshold) ==
    /\ r.distance = Some(h.dist)
    /\ r.similarity_score = Some(similarities(h.dist))
    /\ RatGE(similarities(h.dist), threshold)
    /\ h.idx >= 0 =>
          /\ h.idx < Len(metadata)
          /\ r.question = metadata[h.idx + 1].question
          /\ r.unit = metadata[h.idx + 1].unit
          /\ r.year = metadata[h.idx + 1].year

\* results[i..] are search slots among hits[s..], in the order of the slots.
RECURSIVE IsSubsequenceOfHits(_, _, _, _, _)
IsSubsequenceOfHits(results, i, hits, s, threshold) ==
    IF i > Len(results) THEN TRUE
    ELSE IF s > Len(hits) THEN FALSE
    ELSE IF IsResultOfHit(results[i], hits[s], threshold)
         THEN IsSubsequenceOfHits(results, i + 1, hits, s + 1, threshold)
         ELSE IsSubsequenceOfHits(results, i, hits, s + 1, threshold)

\* C10: the list retrieve_notes returns is nearest first: it is a subsequence
\* of the search results, all passing the threshold, each entry carrying the
\* distance and similarity_score of its own search hit, so that distances do
\* not decrease and similarity scores do not increase along the list.
NotesNearestFirst ==
    ret.op = "retrieve_notes" =>
        /\ IsSubsequenceOfHits(ret.results, 1, ret.hits, 1, ret.threshold)
        /\ \A i \in 1..(Len(ret.results) - 1) :
              /\ ret.results[i].distance[1] <= ret.results[i + 1].distance[1]
              /\ RatGE(ret.results[i].similarity_score[1],
                       ret.results[i + 1].similarity_score[1])

\* C10 happens: two results at different distances, the nearer one stored
\* after the farther one.
NotesReturnedAgainstStorageOrder ==
    /\ ret.op = "retrieve_notes"
    /\ Len(ret.results) = 2
    /\ Len(metadata) = 2
    /\ ret.results[1].distance[1] < ret.results[2].distance[1]
    /\ ret.results[1].question = metadata[2].question
    /\ ret.results[2].question = metadata[1].question
    /\ metadata[1].question # metadata[2].question

----------------------------------------------------------------------------
(* Claims on the retrieval decision *)

\* C11: with the default threshold 1/2, should_use_rag on the short general
\* queries "What is the weather today?" and "What is Python?" returns the
\* decision false with a confidence below 1/2.
GeneralQueriesSkipRag ==
    (/\ turn.op = "should_use_rag"
     /\ orchestrator.use_rag_threshold = Rat(1, 2)
     /\ turn.query \in {WeatherQuery, PythonQuery})
        => ~turn.use_rag /\ RatGT(Rat(1, 2), turn.confidence)

\* The weather query has been scored by an orchestrator with threshold 1/2.
WeatherQueryScored ==
    /\ turn.op = "should_use_rag"
    /\ orchestrator.use_rag_threshold = Rat(1, 2)
    /\ turn.query = WeatherQuery
    /\ ~turn.use_rag

\* C12: with the default threshold 1/2, should_use_rag on "Define
\* object-oriented programming and explain its principles" and on "Define OOP
\* and explain its principles" returns the decision true with a confidence
\* of at least 1/2.
DefineQueriesUseRag ==
    (/\ turn.op = "should_use_rag"
     /\ orchestrator.use_rag_threshold = Rat(1, 2)
     /\ turn.query \in {DefineLongQuery, DefineOOPQuery})
        => turn.use_rag /\ RatGE(turn.confidence, Rat(1, 2))

\* The query with the word k added after its first p words.
WithWord(query, k, p) ==
    LET words == Split(query)
    IN  Join(SubSeq(words, 1, p) \o <<k>> \o SubSeq(words, p + 1, Len(words)),
             <<" ">>)

\* C13: for every query and every exam keyword k, the confidence of the
\* query with k added as one more whitespace-separated word, at any place,
\* is at least the confidence of the query.
KeywordNeverLowersConfidence ==
    turn.op = "should_use_rag" =>
        \A k \in exam_keywords, p \in 0..Len(Split(turn.query)) :
            RatGE(Confidence(WithWord(turn.query, k, p)), turn.confidence)

----------------------------------------------------------------------------
(* Claims on the context assembly *)

\* C15: the string format_context returns is at most max_context_length
\* characters long, header, separator, entries, joining newlines and trailer
\* included.
ContextWithinMaxLength ==
    turn.op = "format_context" =>
        Len(turn.context) <= turn.max_context_length

\* Entry i of the results rendered complete: its marker and unit / year /
\* relevance line, then the question text up to its first 500 characters.
CompleteEntry(results, i) ==
    LET text == Chars(results[i].question)
    IN  EntryLine(i, results[i]) \o SubSeq(text, 1, Min(Len(text), 500))

\* The first n entries, each complete.
RECURSIVE CompleteEntries(_, _)
CompleteEntries(results, n) ==
    IF n = 0 THEN <<>>
    ELSE Append(CompleteEntries(results, n - 1), CompleteEntry(results, n))

\* The context that renders the first n results, with a trailer after them
\* when told so.
Rendering(results, n, trailer) ==
    Join(<<Header, Separator>> \o CompleteEntries(results, n)
             \o (IF trailer THEN <<Trailer(Len(results) - n)>> ELSE <<>>),
         <<"\n">>)

\* The context renders exactly the first n results.
Renders(context, results, n) ==
    context \in {Rendering(results, n, TRUE), Rendering(results, n, FALSE)}

\* The number of results a context renders, -1 when it is no rendering of a
\* prefix of the results.
RenderedCount(context, results) ==
    IF \E n \in 0..Len(results) : Renders(context, results, n)
    THEN CHOOSE n \in 0..Len(results) : Renders(context, results, n)
    ELSE -1

\* C16: the entries format_context renders are a prefix of the result list,
\* each complete with an excerpt of at most 500 characters, and a smaller
\* max_context_length never renders more entries of the same list.
EntriesWholeAndMonotonic ==
    (turn.op = "format_context" /\ turn.results # <<>>) =>
        /\ RenderedCount(turn.context, turn.results) >= 0
        /\ \A m \in MaxContextLengths :
               m <= turn.max_context_length =>
                   /\ RenderedCount(Context(turn.results, m), turn.results)
                          >= 0
                   /\ RenderedCount(Context(turn.results, m), turn.results)
                          <= RenderedCount(turn.context, turn.results)

\* A question of more than 500 characters has been rendered, after a shorter
\* one, within the limit.
LongQuestionRendered ==
    /\ turn.op = "format_context"
    /\ Len(turn.results) = 2
    /\ Len(Chars(turn.results[2].question)) > 500
    /\ RenderedCount(turn.context, turn.results) = 2

\* The length of the first n complete entries.
RECURSIVE EntriesLength(_, _)
EntriesLength(results, n) ==
    IF n = 0 THEN 0
    ELSE EntriesLength(results, n - 1) + Len(CompleteEntry(results, n))

\* C17: format_context stops at the first entry that would take the entries
\* beyond max_context_length, renders none after it, and appends one trailer
\* that counts the results not rendered; when every entry fits there is no
\* trailer.
StopsAtFirstOverflow ==
    (turn.op = "format_context" /\ turn.results # <<>>) =>
        LET results == turn.results
            overflow ==
                {i \in 1..Len(results) :
                    EntriesLength(results, i) > turn.max_context_length}
            first == CHOOSE i \in overflow : \A j \in overflow : i <= j
        IN  IF overflow = {}
            THEN turn.context = Rendering(results, Len(results), FALSE)
            ELSE turn.context = Rendering(results, first - 1, TRUE)

\* The first result overflowed although the second alone would have fitted,
\* and neither was rendered.
OverflowBeforeFittingEntry ==
    /\ turn.op = "format_context"
    /\ Len(turn.results) = 2
    /\ Len(Entry(1, turn.results[1])) > turn.max_context_length
    /\ Len(Entry(2, turn.results[2])) <= turn.max_context_length
    /\ turn.context = Rendering(turn.results, 0, TRUE)

----------------------------------------------------------------------------
(* Claims on answer_question *)

\* The calls of the turn to the MCP client, and to retrieve_notes.
ClientCalls ==
    {i \in 1..Len(turn.calls) :
        turn.calls[i].op = "answer_question_with_context"}

RetrieveCalls ==
    {i \in 1..Len(turn.calls) : turn.calls[i].op = "retrieve_notes"}

\* C18: the prompt forwarded to the answer provider is the query verbatim
\* when the decision is false, no RAG system is configured or retrieval
\* returned nothing; otherwise it is the formatted context, the separator and
\* the query; the context argument is None exactly when the prompt is the
\* query verbatim.
PromptIsQueryOrContextThenQuery ==
    turn.op = "answer_question" =>
        \A i \in ClientCalls :
            LET verbatim ==
                    \/ ~turn.use_rag
                    \/ ~orchestrator.rag_system
                    \/ turn.results = <<>>
            IN  /\ verbatim => turn.calls[i].prompt = turn.query
                /\ ~verbatim =>
                       turn.calls[i].prompt =
                           Context(turn.results, 2000)
                               \o QuestionSeparator
                               \o turn.query
                /\ turn.calls[i].context = Absent
                       <=> turn.calls[i].prompt = turn.query

\* A question was answered with a context: the decision was taken by
\* scoring, retrieval gave results, and the client received a context.
AnsweredWithContext ==
    /\ turn.op = "answer_question"
    /\ turn.override = Absent
    /\ turn.results # <<>>
    /\ \E i \in ClientCalls : turn.calls[i].context # Absent

\* C19: with the override False retrieve_notes is never called; with the
\* override True and a RAG system it is called exactly once, before the
\* answer provider; with no override it is called exactly when the score
\* reaches the threshold and a RAG system is configured.
OverrideBeforeScore ==
    turn.op = "answer_question" =>
        LET scored ==
                RatGE(Confidence(turn.query), orchestrator.use_rag_threshold)
            once ==
                /\ Cardinality(RetrieveCalls) = 1
                /\ \A i \in RetrieveCalls, j \in ClientCalls : i < j
        IN  /\ turn.override = Some(FALSE) => RetrieveCalls = {}
            /\ (turn.override = Some(TRUE) /\ orchestrator.rag_system)
                   => once
            /\ turn.override = Absent =>
                   IF scored /\ orchestrator.rag_system THEN once
                   ELSE RetrieveCalls = {}

\* Retrieval was forced by the override for a query whose score is below the
\* threshold, and ran before the client was called.
RetrievalForcedByOverride ==
    /\ turn.op = "answer_question"
    /\ turn.override = Some(TRUE)
    /\ ~RatGE(Confidence(turn.query), orchestrator.use_rag_threshold)
    /\ Len(turn.calls) = 2
    /\ turn.calls[1].op = "retrieve_notes"

\* C20: every answer_question call calls the answer provider exactly once,
\* with the mode it was given, and returns the provider's result unchanged,
\* an answer or None.
ProviderCalledOnceAnswerUnchanged ==
    turn.op = "answer_question" =>
        /\ Cardinality(ClientCalls) = 1
        /\ \A i \in ClientCalls :
               /\ turn.calls[i].mode = turn.mode
               /\ turn.answer = turn.calls[i].result

\* A question in mode "local" went through retrieval and the client had no
\* answer.
NoAnswerAfterRetrieval ==
    /\ turn.op = "answer_question"
    /\ turn.mode = "local"
    /\ turn.answer = Absent
    /\ RetrieveCalls # {}

----------------------------------------------------------------------------
(* Claims on unit retrieval and on the stored documents *)

\* The positions of the stored documents whose unit is the unit of the call
\* ignoring case, in storage order.
SameUnit ==
    SelectSeq([i \in 1..Len(metadata) |-> i],
              LAMBDA i : Lower(Chars(metadata[i].unit))
                             = Lower(Chars(ret.unit)))

\* The cosine similarity of a document to the query of the call.
CosineToQuery(doc) ==
    similarity(embed_text(ret.query), embed_text(doc.question))

\* How often a document occurs in a list.
Count(docs, doc) == Cardinality({i \in 1..Len(docs) : docs[i] = doc})

\* C24: retrieve_by_unit selects the stored documents of the unit, ignoring
\* case: without a query the first top_k of them in storage order; with a
\* query the top_k of them with the highest cosine similarity to the query,
\* in descending order of similarity.
ByUnitSelectsAndRanks ==
    (ret.op = "retrieve_by_unit" /\ ~ret.raised) =>
        LET n == Min(ret.top_k, Len(SameUnit))
            unit_docs == [j \in 1..Len(SameUnit) |-> metadata[SameUnit[j]]]
        IN  /\ Len(ret.results) = n
            /\ ret.query = "" =>
                   \A j \in 1..n : ret.results[j] = unit_docs[j]
            /\ ret.query # "" =>
                   /\ \A j \in 1..n :
                          /\ Count(ret.results, ret.results[j])
                                 <= Count(unit_docs, ret.results[j])
                          /\ ret.results[j].similarity_score
                                 = Some(CosineToQuery(ret.results[j]))
                   /\ \A j \in 1..(n - 1) :
                          RatGE(CosineToQuery(ret.results[j]),
                                CosineToQuery(ret.results[j + 1]))
                   /\ \A j \in 1..Len(unit_docs) :
                          \/ Count(ret.results, unit_docs[j]) > 0
                          \/ n = 0
                          \/ RatGE(CosineToQuery(ret.results[n]),
                                   CosineToQuery(unit_docs[j]))

\* Two documents of the unit were ranked against their storage order, the
\* unit given in another case than stored.
RankedAgainstStorageOrder ==
    /\ ret.op = "retrieve_by_unit"
    /\ ~ret.raised
    /\ ret.query # ""
    /\ Len(ret.results) = 2
    /\ ret.unit # metadata[1].unit
    /\ ret.results[1].question = metadata[2].question
    /\ ret.results[2].question = metadata[1].question
    /\ RatGT(CosineToQuery(ret.results[1]), CosineToQuery(ret.results[2]))

\* C25: retrieve_by_unit, with or without a query, and retrieve_notes leave
\* every entry of the metadata list as it was.
RetrievalLeavesDocuments ==
    [][ret'.op \in {"retrieve_by_unit", "retrieve_notes"}
           => metadata' = metadata]_vars

\* C29: a load_index call that returns False leaves the index and the
\* metadata list in memory as they were before the call.
FailedLoadChangesNothing ==
    [][(ret'.op = "load_index" /\ ~ret'.ok)
           => (faiss_index' = faiss_index /\ metadata' = metadata)]_vars
----------------------------------------------------------------------------
(* Claims on the technical-term factor *)

\* The text contains a run of lowercase letters, then an uppercase letter,
\* then a lowercase letter.
HasEmbeddedCapital(text) ==
    \E i \in 1..Len(text) :
        /\ i + 2 <= Len(text)
        /\ IsLower(text[i])
        /\ IsUpper(text[i + 1])
        /\ IsLower(text[i + 2])

\* C26: should_use_rag adds the embedded-capital bonus of 0.15 exactly when
\* the query contains a lowercase run followed by an uppercase letter
\* followed by a lowercase letter, whether or not the acronym bonus is added.
EmbeddedCapitalBonus ==
    turn.op = "should_use_rag" =>
        LET query == turn.query
            others == QueryLengthScore(query) + ExamKeywordScore(query)
                          + SpecificityScore(query)
                          + (IF HasAcronym(query) THEN 15 ELSE 0)
            bonus == IF HasEmbeddedCapital(query) THEN 15 ELSE 0
        IN  turn.confidence = Rat(others + bonus, 100)
----------------------------------------------------------------------------
(* Claims on failures during answer_question *)

\* C27: when the embedding provider or the index search fails inside the
\* retrieval of an answer_question call, the call does not raise and the
\* answer provider is called exactly once, with the query verbatim as prompt
\* and no context.
RetrievalFailureStillAnswers ==
    (/\ turn.op = "answer_question"
     /\ \E i \in RetrieveCalls : turn.calls[i].failed) =>
        /\ ~turn.raised
        /\ Cardinality(ClientCalls) = 1
        /\ \A i \in ClientCalls :
               /\ turn.calls[i].prompt = turn.query
               /\ turn.calls[i].context = Absent

\* The embedding provider failed during the retrieval of a scored query
\* over a built index, and the answer provider answered the query alone.
AnsweredAfterFailedRetrieval ==
    /\ turn.op = "answer_question"
    /\ turn.override = Absent
    /\ turn.top_k > 0
    /\ Len(metadata) > 0
    /\ Len(turn.calls) = 2
    /\ turn.calls[1].failed
    /\ turn.calls[2].prompt = turn.query
    /\ turn.answer = Some("an answer")
----------------------------------------------------------------------------
(* Claims on the forwarded context *)

\* C30: whenever answer_question forwards a non-empty context, the context
\* contains at least one rendered question entry: format_context on a
\* non-empty result list never returns only the header, the separator and
\* the trailer of the results left out.
ForwardedContextHasEntry ==
    /\ (turn.op = "answer_question" /\ turn.context # <<>>) =>
           RenderedCount(turn.context, turn.results) >= 1
    /\ (turn.op = "format_context" /\ turn.results # <<>>) =>
           turn.context # Rendering(turn.results, 0, TRUE)

\* C30 as amended: whenever answer_question forwards a non-empty context
\* and the first result's entry is at most 2000 characters long, the context
\* contains at least one rendered question entry; format_context on a
\* non-empty result list returns only the header, the separator and the
\* trailer exactly when the first entry is longer than max_context_length.
DefaultContextHasEntry ==
    /\ (/\ turn.op = "answer_question"
        /\ turn.context # <<>>
        /\ Len(CompleteEntry(turn.results, 1)) <= 2000) =>
           RenderedCount(turn.context, turn.results) >= 1
    /\ (turn.op = "format_context" /\ turn.results # <<>>) =>
           (turn.context = Rendering(turn.results, 0, TRUE)
                <=> Len(CompleteEntry(turn.results, 1))
                        > turn.max_context_length)

\* Retrieval forced by the override gave results and the client received a
\* context that renders every one of them.
ContextWithEntriesForwarded ==
    /\ turn.op = "answer_question"
    /\ turn.override = Some(TRUE)
    /\ turn.results # <<>>
    /\ RenderedCount(turn.context, turn.results) = Len(turn.results)
    /\ \E i \in ClientCalls : turn.calls[i].context = Some(turn.context)
----------------------------------------------------------------------------
(* Claims on batches *)

\* The positions of a text in the list of the batch.
Occurrences(text) ==
    {i \in 1..Len(turn.queries) : turn.queries[i] = text}

\* C21: batch_answer_questions calls answer_question once per element of
\* the list, in list order, repeated queries again, and returns a map with
\* exactly one key per distinct query text, whose value is the result of the
\* last occurrence of that query.
BatchAsksEachInOrder ==
    turn.op = "batch_answer_questions" =>
        /\ Len(turn.turns) = Len(turn.queries)
        /\ \A i \in 1..Len(turn.queries) :
               /\ turn.turns[i].op = "answer_question"
               /\ turn.turns[i].query = turn.queries[i]
        /\ DOMAIN turn.answers =
               {turn.queries[i] : i \in 1..Len(turn.queries)}
        /\ \A text \in DOMAIN turn.answers :
               \E last \in Occurrences(text) :
                   /\ \A i \in Occurrences(text) : i <= last
                   /\ turn.answers[text] = turn.turns[last].answer

\* The batch "A", "B", "A" gave two keys, and "A" holds the answer of its
\* second occurrence, which differs from the answer of the first.
RepeatedQueryAnsweredAgain ==
    /\ turn.op = "batch_answer_questions"
    /\ Len(turn.queries) = 3
    /\ turn.queries[1] = turn.queries[3]
    /\ turn.queries[1] # turn.queries[2]
    /\ Cardinality(DOMAIN turn.answers) = 2
    /\ turn.turns[1].answer # turn.turns[3].answer
    /\ turn.answers[turn.queries[1]] = turn.turns[3].answer
----------------------------------------------------------------------------
(* Claims on the topic cache *)

\* Two names are equal ignoring the case of their letters.
SameIgnoringCase(a, b) ==
    /\ Len(a) = Len(b)
    /\ \A i \in 1..Len(a) : LowerChar(a[i]) = LowerChar(b[i])

\* The cache_topic calls of the instance with a name equal, ignoring case,
\* to the topic of the call.
CachedUnderName ==
    {i \in 1..Len(cache_log) :
        SameIgnoringCase(Chars(cache_log[i].topic), Chars(ret.topic))}

\* C22: after any sequence of cache_topic calls, index operations and
\* retrievals, get_cached_topic(name) returns the list most recently cached
\* under a name equal to it ignoring case, and None when there is none: no
\* entry is evicted or invalidated.
CacheReturnsLastCached ==
    ret.op = "get_cached_topic" =>
        IF CachedUnderName = {} THEN ret.cached = Absent
        ELSE \E last \in CachedUnderName :
                 /\ \A i \in CachedUnderName : i <= last
                 /\ ret.cached = Some(cache_log[last].questions)

\* A list cached under one spelling of a topic, later replaced under
\* another, was read under the first spelling after the index was built.
CachedListReadInOtherCase ==
    /\ ret.op = "get_cached_topic"
    /\ Len(cache_log) = 2
    /\ CachedUnderName = {1, 2}
    /\ cache_log[1].topic = ret.topic
    /\ cache_log[2].topic # ret.topic
    /\ cache_log[1].questions # cache_log[2].questions
    /\ ret.cached = Some(cache_log[2].questions)
    /\ ~faiss_index.isNone
----------------------------------------------------------------------------
(* Claims on initialize_rag_system and on persistence failures *)

\* The positions of the steps named op among the steps of a call.
StepsOf(calls, op) == {i \in 1..Len(calls) : calls[i].op = op}

PersistenceFailuresAreSignals ==
    [][/\ ret'.op = "save_index" =>
              /\ ~ret'.raised
              /\ (ret'.fault # "none" \/ faiss_index.isNone) => ~ret'.ok
       /\ ret'.op = "load_index" =>
              /\ ~ret'.raised
              /\ (\/ ret'.fault = "index_read"
                  \/ index_file.state # "ok"
                  \/ metadata_file.state = "corrupt"
                  \/ /\ ret'.fault = "meta_read"
                     /\ metadata_file.state # "absent") => ~ret'.ok
       /\ turn'.op = "initialize_rag_system" =>
              LET calls == turn'.calls
              IN  /\ ~turn'.raised
                  /\ \A i \in StepsOf(calls, "load_index") :
                         ~calls[i].ok =>
                             /\ i < Len(calls)
                             /\ calls[i + 1].op = "load_questions"
                             /\ calls[i + 1].ok =>
                                    StepsOf(calls, "build_index") # {}
                  /\ \A i \in StepsOf(calls, "save_index") :
                         turn'.service
                  /\ \A i \in StepsOf(calls, "build_index") :
                         ~calls[i].ok => ~turn'.service]_vars

\* After a failed load the index was rebuilt, the save failed, and the
\* service was returned all the same.
ServiceDespiteFailedSave ==
    /\ turn.op = "initialize_rag_system"
    /\ turn.service
    /\ \E i \in StepsOf(turn.calls, "load_index") : ~turn.calls[i].ok
    /\ \E i \in StepsOf(turn.calls, "build_index") : turn.calls[i].ok
    /\ \E i \in StepsOf(turn.calls, "save_index") : ~turn.calls[i].ok
    /\ ntotal > 0
    /\ last_save = NotSaved

====
